---- MODULE Spec2Model ----
(***************************************************************************)
(* Model of app.py: the Streamlit front end that stages an audio file,     *)
(* uploads it to the provider, asks for a transcript and shows the result, *)
(* and the second mode that sends a prompt plus a transcript for text      *)
(* processing.  One run of main() after a button press is one submission;  *)
(* pc is the position of main() inside that submission.  The local disk    *)
(* outlives a submission, everything else is rebuilt on every rerun.       *)
(*                                                                         *)
(* Strings whose characters matter (prompts, file names, URLs, paths) are  *)
(* sequences of one-character strings.  Provider texts, URIs and mime      *)
(* types are opaque and are TLA+ strings.                                  *)
(***************************************************************************)
EXTENDS Integers, Sequences, FiniteSets, TLC

\* ------------------------------------------------------------------ bounds
MaxSubmissions == 2
MaxCandidates == 2
MaxParts == 2

\* ------------------------------------------------------- optional values
\* Python's None against a present value, for character sequences ...
NoPath == [some |-> FALSE, val |-> <<>>]
SomePath(p) == [some |-> TRUE, val |-> p]
\* ... and for opaque strings.
NoText == [some |-> FALSE, val |-> ""]
SomeText(t) == [some |-> TRUE, val |-> t]

\* Python truthiness of an optional string: None and "" are falsy.
Truthy(o) == o.some /\ o.val # ""
TruthyPath(o) == o.some /\ o.val # <<>>

\* ------------------------------------------------------------ str.strip()
Whitespace == {" ", "\t", "\n", "\r"}

RECURSIVE LStrip(_)
LStrip(s) == IF s # <<>> /\ Head(s) \in Whitespace THEN LStrip(Tail(s)) ELSE s

RECURSIVE RStrip(_)
RStrip(s) ==
    IF s # <<>> /\ s[Len(s)] \in Whitespace
    THEN RStrip(SubSeq(s, 1, Len(s) - 1))
    ELSE s

Strip(s) == RStrip(LStrip(s))

\* `not s.strip()` without the strip: what a validation that forgot to strip
\* would accept.
IsBlankNoStrip(s) == s = <<>>

\* `not audio_prompt.strip()`, `not prompt.strip()`, `not transcript.strip()`
IsBlank(s) == Strip(s) = <<>>

\* ------------------------------------------------------ os.path.splitext
\* Largest index of character c in p, 0 when absent (str.rfind, 1-based).
RFind(p, c) ==
    LET hits == {i \in 1..Len(p) : p[i] = c}
    IN IF hits = {} THEN 0 ELSE CHOOSE i \in hits : \A j \in hits : j <= i

\* The extension part of os.path.splitext: from the last dot of the last
\* path component, unless that component has only dots before it.
SplitExt(p) ==
    LET sepIndex == RFind(p, "/")
        dotIndex == RFind(p, ".")
    IN IF dotIndex > sepIndex
          /\ \E k \in (sepIndex + 1)..(dotIndex - 1) : p[k] # "."
       THEN SubSeq(p, dotIndex, Len(p))
       ELSE <<>>

\* ------------------------------------------------------------ str.lower()
UpperChars == <<"A","B","C","D","E","F","G","H","I","J","K","L","M",
                "N","O","P","Q","R","S","T","U","V","W","X","Y","Z">>
LowerChars == <<"a","b","c","d","e","f","g","h","i","j","k","l","m",
                "n","o","p","q","r","s","t","u","v","w","x","y","z">>

LowerChar(c) ==
    IF \E i \in 1..Len(UpperChars) : UpperChars[i] = c
    THEN LowerChars[CHOOSE i \in 1..Len(UpperChars) : UpperChars[i] = c]
    ELSE c

\* An extension used as it is spelled: what the lookup sees when the
\* lower-casing is left out.
LowerIdentity(s) == s

Lower(s) == [i \in 1..Len(s) |-> LowerChar(s[i])]

\* ---------------------------------------------------------- mime_type_map
\* mime_type_map.get(file_extension, 'audio/wav')
MimeTypeMap(ext) ==
    CASE ext = <<".", "w", "a", "v">> -> "audio/wav"
      [] ext = <<".", "m", "p", "3">> -> "audio/mpeg"
      [] ext = <<".", "m", "4", "a">> -> "audio/mp4"
      [] ext = <<".", "o", "g", "g">> -> "audio/ogg"
      [] ext = <<".", "f", "l", "a", "c">> -> "audio/flac"
      [] OTHER -> "audio/wav"

\* The mime type upload_audio_to_gemini derives from the path it is given.
MimeOfPath(audio_path) == MimeTypeMap(Lower(SplitExt(audio_path)))

\* ------------------------------------------------------- temporary files
\* tempfile.NamedTemporaryFile: a fresh name in the temporary directory,
\* "tmp" plus characters that never include a dot or a slash, then the
\* suffix.  The k-th candidate stem stands for the k-th random name.
TmpDir == <<"/", "t", "m", "p", "/">>
StemChars == <<"a", "b", "c", "d", "e", "f", "g", "h">>
TmpStem(k) == <<"t", "m", "p", StemChars[k]>>
TmpName(k, suffix) == TmpDir \o TmpStem(k) \o suffix

\* The suffix main() gives the file that holds an uploaded file's bytes.
UploadSuffix(name) == SplitExt(name)

\* The suffix download_audio_from_url gives its temporary file.
DownloadSuffix(url) == <<".", "w", "a", "v">>

\* -------------------------------------------------------------- user input
\* Prompts and transcripts as typed: empty, whitespace only, and with text.
TextInputs ==
    { <<>>, <<" ">>, <<"\n", "\t">>, <<" ", "h", "i", " ">> }

\* Names of uploaded files.
UploadNames ==
    { <<"c", "l", "i", "p", ".", "m", "p", "3">>,
      <<"A", ".", "W", "a", "v">>,
      <<"b", ".", "m", "4", "a">>,
      <<"c", ".", "O", "G", "G">>,
      <<"d", ".", "x", ".", "f", "l", "a", "c">>,
      <<"e", ".", "t", "x", "t">>,
      <<"n", "o", "e", "x", "t">>,
      <<".", "m", "p", "3">> }

\* URLs typed into the URL field; the button is rendered only for a
\* non-empty one.
AudioUrls ==
    { <<"h", "/", "a", ".", "m", "p", "3">>,
      <<"h", "/", "b", ".", "w", "a", "v">>,
      <<"h", "/", "c">> }

\* -------------------------------------------------- what the network does
\* requests.get / raise_for_status / iter_content in the stager.
DownloadOutcomes == {"ok", "unreachable", "http_error", "stream_error"}

\* The upload POST: a transport failure, or a status with a JSON body that
\* may or may not carry file.uri.
UploadBodies ==
    { [has_file |-> FALSE, has_uri |-> FALSE, uri |-> ""],
      [has_file |-> TRUE, has_uri |-> FALSE, uri |-> ""],
      [has_file |-> TRUE, has_uri |-> TRUE, uri |-> ""],
      [has_file |-> TRUE, has_uri |-> TRUE, uri |-> "files/1"],
      [has_file |-> TRUE, has_uri |-> TRUE, uri |-> "files/2"] }

UploadResponses ==
    { [raised |-> TRUE, status |-> 0,
       body |-> [has_file |-> FALSE, has_uri |-> FALSE, uri |-> ""]] }
    \cup [raised : {FALSE}, status : {200, 500}, body : UploadBodies]

NoUploadResponse ==
    [raised |-> FALSE, status |-> 0,
     body |-> [has_file |-> FALSE, has_uri |-> FALSE, uri |-> ""]]

\* The generate POST: candidates[].content.parts[].text, every level of
\* which may be missing.
SeqsUpTo(S, n) == UNION {[1..k -> S] : k \in 0..n}

PartTexts == {"", "hello world"}

Parts ==
    { [has_text |-> FALSE, text |-> ""] }
    \cup [has_text : {TRUE}, text : PartTexts]

Candidates ==
    { [has_content |-> FALSE, has_parts |-> FALSE, parts |-> <<>>],
      [has_content |-> TRUE, has_parts |-> FALSE, parts |-> <<>>] }
    \cup [has_content : {TRUE}, has_parts : {TRUE},
          parts : SeqsUpTo(Parts, MaxParts)]

ErrorBodies ==
    { <<>>,
      << [has_content |-> TRUE, has_parts |-> TRUE,
          parts |-> << [has_text |-> TRUE, text |-> "hello world"] >>] >> }

GenerateResponses ==
    { [raised |-> TRUE, status |-> 0, candidates |-> <<>>] }
    \cup [raised : {FALSE}, status : {500}, candidates : ErrorBodies]
    \cup [raised : {FALSE}, status : {200},
          candidates : SeqsUpTo(Candidates, MaxCandidates)]

NoGenerateResponse == [raised |-> FALSE, status |-> 0, candidates |-> <<>>]

\* Generate answers of every shape the scan distinguishes, a handful of
\* them: for the runs that go through the whole form.
NoContent == [has_content |-> FALSE, has_parts |-> FALSE, parts |-> <<>>]
WithParts(parts) == [has_content |-> TRUE, has_parts |-> TRUE, parts |-> parts]
TextPart(t) == [has_text |-> TRUE, text |-> t]
DataPart == [has_text |-> FALSE, text |-> ""]

GenerateSamples ==
    { [raised |-> TRUE, status |-> 0, candidates |-> <<>>] }
    \cup [raised : {FALSE}, status : {500}, candidates : ErrorBodies]
    \cup [raised : {FALSE}, status : {200},
          candidates :
            { <<>>,
              <<NoContent>>,
              <<WithParts(<<TextPart("")>>)>>,
              <<WithParts(<<DataPart, TextPart("hello world")>>)>>,
              <<NoContent, WithParts(<<TextPart(""), TextPart("hello world")>>)>>,
              <<WithParts(<<TextPart("hello world")>>), WithParts(<<TextPart("")>>)>> }]

\* client.models.generate_content: an exception while building the client,
\* making the call or reading response.text, or a response whose text is
\* None, empty or a string.
ProcessResponses ==
    [raised : {"client", "call", "text"}, text : {NoText}]
    \cup [raised : {"none"},
          text : {NoText, SomeText(""), SomeText("{\"summary\":\"a cat sat\"}")}]

NoProcessResponse == [raised |-> "none", text |-> NoText]

\* ------------------------------------------------ download_audio_from_url
\* Line 64 is reached: the temporary file has been created with delete=False.
DownloadCreatesFile(o) == o \in {"ok", "stream_error"}

\* A stager that hands back the path of whatever it managed to write.
DownloadReturnPartial(o, path) ==
    IF o \in {"ok", "stream_error"} THEN SomePath(path) ELSE NoPath

\* The path on success; None from the except clause.
DownloadReturn(o, path) == IF o = "ok" THEN SomePath(path) ELSE NoPath

\* ------------------------------------------------- upload_audio_to_gemini
\* response_json.get('file', {}).get('uri')
FileUri(body) ==
    IF body.has_file /\ body.has_uri THEN SomeText(body.uri) ELSE NoText

\* An upload check that looks at the URI only and not at the status.
UploadRaisesNoStatus(r) == r.raised \/ ~Truthy(FileUri(r.body))

\* The try block raises: the POST itself, the status check or the URI check.
UploadRaises(r) ==
    r.raised \/ r.status # 200 \/ ~Truthy(FileUri(r.body))

\* (mime_type, file_uri), or (None, None) from the except clause.
UploadResult(mt, r) ==
    IF UploadRaises(r)
    THEN [mime |-> "", uri |-> NoText]
    ELSE [mime |-> mt, uri |-> FileUri(r.body)]

\* ----------------------------------------- generate_transcript_from_audio
\* A caller that goes on to generate whatever the upload returned.
AfterUploadAlways(uri) == "generate"

\* `if not file_uri: return None`
AfterUpload(uri) == IF ~Truthy(uri) THEN "show" ELSE "generate"

\* A scan that takes a part only when its text is non-empty.
PartHasTextTruthy(part) == part.has_text /\ part.text # ""

\* `"text" in part`
PartHasText(part) == part.has_text

\* The inner loop: the first part of one candidate that has a text key.
RECURSIVE FirstTextInParts(_)
FirstTextInParts(parts) ==
    IF parts = <<>> THEN NoText
    ELSE IF PartHasText(Head(parts)) THEN SomeText(Head(parts).text)
    ELSE FirstTextInParts(Tail(parts))

\* candidate.get("content", {}).get("parts", [])
PartsOf(c) == IF c.has_content /\ c.has_parts THEN c.parts ELSE <<>>

\* The outer loop over response_json.get("candidates", []).
RECURSIVE ExtractTranscript(_)
ExtractTranscript(cands) ==
    IF cands = <<>> THEN NoText
    ELSE LET t == FirstTextInParts(PartsOf(Head(cands)))
         IN IF t.some THEN t ELSE ExtractTranscript(Tail(cands))

\* The try block raises: the POST itself or the status check.
GenerateRaises(r) == r.raised \/ r.status # 200

\* What generate_transcript_from_audio returns once the request was made.
GenerateResult(r) ==
    IF GenerateRaises(r) THEN NoText ELSE ExtractTranscript(r.candidates)

\* ----------------------------------------------- process_text_with_gemini
\* A client that returns response.text as it is.
ProcessResultRaw(r) == IF r.raised # "none" THEN NoText ELSE r.text

\* `return response.text if response.text else None`, None on an exception.
ProcessResult(r) ==
    IF r.raised # "none" THEN NoText
    ELSE IF Truthy(r.text) THEN r.text ELSE NoText

\* ------------------------------------------------------------------ main
\* A view that shows whatever is not None.
ShowsResultNotNone(t) == t.some

\* `if transcript:` and `if result:`
ShowsResult(t) == Truthy(t)

Banner(kind, data) == [kind |-> kind, data |-> data]

Call(op, mime, uri, text) ==
    [op |-> op, mime |-> mime, uri |-> uri, text |-> text]

\* What the transcription form can hold when its button is rendered:
\* an uploaded file, or a non-empty URL.
SourceInputs ==
    {[file |-> SomePath(n), url |-> <<>>] : n \in UploadNames}
    \cup {[file |-> NoPath, url |-> u] : u \in AudioUrls}

\* ------------------------------------------------------------------ state
VARIABLES
    nsub,            \* submissions so far; the current one is number nsub
    pc,              \* position of main() in the current submission
    mode,            \* "audio" or "text": the sidebar radio
    audio_prompt,    \* transcription prompt
    uploaded_file,   \* name of the uploaded file, or None
    audio_url,       \* URL field
    prompt,          \* text mode: prompt
    transcript_text, \* text mode: the transcript typed in
    tmp_path,        \* main()'s tmp_path
    disk,            \* temporary files on local storage: [path, req]
    dl_outcome,      \* what the download did, "none" before it
    up_response,     \* what the upload POST got
    mime_type,       \* as returned by upload_audio_to_gemini ("" is None)
    file_uri,        \* as returned by upload_audio_to_gemini
    gen_response,    \* what the generate POST got
    transcript,      \* audio mode: generate_transcript_from_audio's result
    proc_response,   \* what client.models.generate_content did
    result,          \* text mode: process_text_with_gemini's result
    calls,           \* remote requests made in this submission, in order
    ui               \* what this run has put on the page, in order

vars ==
    <<nsub, pc, mode, audio_prompt, uploaded_file, audio_url, prompt,
      transcript_text, tmp_path, disk, dl_outcome, up_response, mime_type,
      file_uri, gen_response, transcript, proc_response, result, calls, ui>>

inputs == <<mode, audio_prompt, uploaded_file, audio_url, prompt, transcript_text>>
audioLocals == <<dl_outcome, up_response, mime_type, file_uri, gen_response, transcript>>
textLocals == <<proc_response, result>>

Init ==
    /\ nsub = 0
    /\ pc = "idle"
    /\ mode = "audio"
    /\ audio_prompt = <<>>
    /\ uploaded_file = NoPath
    /\ audio_url = <<>>
    /\ prompt = <<>>
    /\ transcript_text = <<>>
    /\ tmp_path = NoPath
    /\ disk = {}
    /\ dl_outcome = "none"
    /\ up_response = NoUploadResponse
    /\ mime_type = ""
    /\ file_uri = NoText
    /\ gen_response = NoGenerateResponse
    /\ transcript = NoText
    /\ proc_response = NoProcessResponse
    /\ result = NoText
    /\ calls = <<>>
    /\ ui = <<>>

\* A button press reruns the script: every local starts over, the page is
\* drawn again, the disk is what the earlier runs left.
RerunLocals ==
    /\ tmp_path' = NoPath
    /\ dl_outcome' = "none"
    /\ up_response' = NoUploadResponse
    /\ mime_type' = ""
    /\ file_uri' = NoText
    /\ gen_response' = NoGenerateResponse
    /\ transcript' = NoText
    /\ proc_response' = NoProcessResponse
    /\ result' = NoText
    /\ calls' = <<>>

CanClick == pc \in {"idle", "returned", "raised"} /\ nsub < MaxSubmissions

\* The name NamedTemporaryFile picks: the first stem not taken on the disk.
FreshTmp(suffix) ==
    LET free(k) == \A f \in disk : f.path # TmpName(k, suffix)
        k0 == CHOOSE k \in 1..Len(StemChars) :
                  free(k) /\ \A j \in 1..(k - 1) : ~free(j)
    IN TmpName(k0, suffix)

\* "Generate Transcript" pressed: the prompt check of lines 267-270.
ClickGenerateTranscript ==
    /\ CanClick
    /\ \E p \in TextInputs, src \in SourceInputs :
        /\ mode' = "audio"
        /\ audio_prompt' = p
        /\ uploaded_file' = src.file
        /\ audio_url' = src.url
        /\ prompt' = <<>>
        /\ transcript_text' = <<>>
        /\ ui' = IF IsBlank(p)
                 THEN <<Banner("warning", "Please enter a transcription prompt")>>
                 ELSE <<>>
        /\ pc' = IF IsBlank(p) THEN "returned" ELSE "stage"
    /\ nsub' = nsub + 1
    /\ RerunLocals
    /\ UNCHANGED disk

\* Lines 273-277: the uploaded bytes go to a new temporary file.
StageUploadedFile ==
    /\ pc = "stage"
    /\ uploaded_file.some
    /\ LET path == FreshTmp(UploadSuffix(uploaded_file.val))
       IN /\ disk' = disk \cup {[path |-> path, req |-> nsub]}
          /\ tmp_path' = SomePath(path)
    /\ pc' = "upload"
    /\ UNCHANGED <<nsub, inputs, audioLocals, textLocals, calls, ui>>

\* Lines 278-283 with download_audio_from_url: the GET, the temporary file,
\* the except clause and the caller's check of the returned path.
DownloadAudioFromUrl ==
    /\ pc = "stage"
    /\ ~uploaded_file.some
    /\ \E o \in DownloadOutcomes :
        LET path == FreshTmp(DownloadSuffix(audio_url))
            ret == DownloadReturn(o, path)
        IN /\ dl_outcome' = o
           /\ calls' = Append(calls, Call("download", "", "", audio_url))
           /\ disk' = IF DownloadCreatesFile(o)
                      THEN disk \cup {[path |-> path, req |-> nsub]}
                      ELSE disk
           /\ tmp_path' = ret
           /\ ui' = ui
                \o (IF o # "ok"
                    THEN <<Banner("error", "Error downloading audio from URL")>>
                    ELSE <<>>)
                \o (IF ~TruthyPath(ret)
                    THEN <<Banner("error", "Failed to download audio from URL")>>
                    ELSE <<>>)
           /\ pc' = IF ~TruthyPath(ret) THEN "cleanup" ELSE "upload"
    /\ UNCHANGED <<nsub, inputs, up_response, mime_type, file_uri,
                   gen_response, transcript, textLocals>>

\* upload_audio_to_gemini and the check of its result at lines 115-117.
UploadAudioToGemini ==
    /\ pc = "upload"
    /\ \E r \in UploadResponses :
        LET mt == MimeOfPath(tmp_path.val)
            res == UploadResult(mt, r)
        IN /\ up_response' = r
           /\ calls' = Append(calls, Call("upload", mt, "", <<>>))
           /\ mime_type' = res.mime
           /\ file_uri' = res.uri
           /\ ui' = IF UploadRaises(r)
                    THEN Append(ui, Banner("error", "Error uploading audio file"))
                    ELSE ui
           /\ pc' = AfterUpload(res.uri)
    /\ UNCHANGED <<nsub, inputs, tmp_path, disk, dl_outcome, gen_response,
                   transcript, textLocals>>

\* Lines 119-154: the generate POST and the scan of its response, the answer
\* drawn from R.
GenerateContentFrom(R) ==
    /\ pc = "generate"
    /\ \E r \in R :
        /\ gen_response' = r
        /\ calls' = Append(calls,
                           Call("generate", mime_type, file_uri.val, audio_prompt))
        /\ transcript' = GenerateResult(r)
        /\ ui' = IF GenerateRaises(r)
                 THEN Append(ui, Banner("error", "Error generating transcript"))
                 ELSE ui
    /\ pc' = "show"
    /\ UNCHANGED <<nsub, inputs, tmp_path, disk, dl_outcome, up_response,
                   mime_type, file_uri, textLocals>>

GenerateContent == GenerateContentFrom(GenerateSamples)

\* Lines 288-307: the transcript with its download, or the failure banner.
ShowTranscript ==
    /\ pc = "show"
    /\ ui' = IF ShowsResult(transcript)
             THEN ui \o << Banner("success", "Transcript generated successfully"),
                           Banner("text_area", transcript.val),
                           Banner("download", transcript.val) >>
             ELSE Append(ui, Banner("error", "Failed to generate transcript"))
    /\ pc' = "cleanup"
    /\ UNCHANGED <<nsub, inputs, tmp_path, disk, audioLocals, textLocals, calls>>

\* Lines 309-312, the finally block.  tmp_path is bound on every path that
\* gets here; os.path.exists(None) raises TypeError, which leaves main().
Cleanup ==
    /\ pc = "cleanup"
    /\ IF ~tmp_path.some
       THEN /\ pc' = "raised"
            /\ UNCHANGED disk
       ELSE /\ pc' = "returned"
            /\ disk' = {f \in disk : f.path # tmp_path.val}
    /\ UNCHANGED <<nsub, inputs, tmp_path, audioLocals, textLocals, calls, ui>>

\* "Process with Gemini" pressed: the checks of lines 340-345.
ClickProcess ==
    /\ CanClick
    /\ \E p \in TextInputs, t \in TextInputs :
        /\ mode' = "text"
        /\ prompt' = p
        /\ transcript_text' = t
        /\ audio_prompt' = <<>>
        /\ uploaded_file' = NoPath
        /\ audio_url' = <<>>
        /\ ui' = IF IsBlank(p)
                 THEN <<Banner("warning", "Please enter a prompt")>>
                 ELSE IF IsBlank(t)
                 THEN <<Banner("warning", "Please enter a transcript")>>
                 ELSE <<>>
        /\ pc' = IF IsBlank(p) \/ IsBlank(t) THEN "returned" ELSE "process"
    /\ nsub' = nsub + 1
    /\ RerunLocals
    /\ UNCHANGED disk

\* process_text_with_gemini, called at line 347.
ProcessTextWithGemini ==
    /\ pc = "process"
    /\ \E r \in ProcessResponses :
        /\ proc_response' = r
        /\ calls' = IF r.raised = "client"
                    THEN calls
                    ELSE Append(calls, Call("process", "", "", prompt \o transcript_text))
        /\ result' = ProcessResult(r)
        /\ ui' = IF r.raised # "none"
                 THEN Append(ui, Banner("error", "Error processing with Gemini"))
                 ELSE ui
    /\ pc' = "show_result"
    /\ UNCHANGED <<nsub, inputs, tmp_path, disk, audioLocals>>

\* Lines 349-368: the result with its download, or the failure banner.
ShowResult ==
    /\ pc = "show_result"
    /\ ui' = IF ShowsResult(result)
             THEN ui \o << Banner("success", "Processing completed successfully"),
                           Banner("text_area", result.val),
                           Banner("download", result.val) >>
             ELSE Append(ui, Banner("error", "Failed to process"))
    /\ pc' = "returned"
    /\ UNCHANGED <<nsub, inputs, tmp_path, disk, audioLocals, textLocals, calls>>

Next ==
    \/ ClickGenerateTranscript
    \/ StageUploadedFile
    \/ DownloadAudioFromUrl
    \/ UploadAudioToGemini
    \/ GenerateContent
    \/ ShowTranscript
    \/ Cleanup
    \/ ClickProcess
    \/ ProcessTextWithGemini
    \/ ShowResult

Spec == Init /\ [][Next]_vars

\* ------------------------------------------------- the scan, exhaustively
\* One submission taken at the point where the upload has returned a URI
\* (a state Spec reaches), answered by every generate response within the
\* bounds.
ScanName == <<"c", "l", "i", "p", ".", "m", "p", "3">>
ScanPath == TmpName(1, UploadSuffix(ScanName))
ScanUpload ==
    [raised |-> FALSE, status |-> 200,
     body |-> [has_file |-> TRUE, has_uri |-> TRUE, uri |-> "files/1"]]

InitScan ==
    /\ nsub = 1
    /\ pc = "generate"
    /\ mode = "audio"
    /\ audio_prompt = <<" ", "h", "i", " ">>
    /\ uploaded_file = SomePath(ScanName)
    /\ audio_url = <<>>
    /\ prompt = <<>>
    /\ transcript_text = <<>>
    /\ tmp_path = SomePath(ScanPath)
    /\ disk = {[path |-> ScanPath, req |-> 1]}
    /\ dl_outcome = "none"
    /\ up_response = ScanUpload
    /\ mime_type = UploadResult(MimeOfPath(ScanPath), ScanUpload).mime
    /\ file_uri = UploadResult(MimeOfPath(ScanPath), ScanUpload).uri
    /\ gen_response = NoGenerateResponse
    /\ transcript = NoText
    /\ proc_response = NoProcessResponse
    /\ result = NoText
    /\ calls = <<Call("upload", MimeOfPath(ScanPath), "", <<>>)>>
    /\ ui = <<>>

GenerateContentScan == GenerateContentFrom(GenerateResponses)

NextScan ==
    \/ GenerateContentScan
    \/ ShowTranscript
    \/ Cleanup

SpecScan == InitScan /\ [][NextScan]_vars

\* ============================================================ properties
\* Vocabulary of the properties, stated on the page, the request log and the
\* disk, and independent of the operators the actions are built from.
Done == pc \in {"returned", "raised"}
Kinds(k) == {i \in 1..Len(ui) : ui[i].kind = k}
Ops(op) == {i \in 1..Len(calls) : calls[i].op = op}
OpsInOrder == [i \in 1..Len(calls) |-> calls[i].op]
Shows(kind, data) == \E i \in 1..Len(ui) : ui[i] = [kind |-> kind, data |-> data]
OwnFiles == {f \in disk : f.req = nsub}
AllWhitespace(s) == \A i \in 1..Len(s) : s[i] \in {" ", "\t", "\n", "\r"}
PassedValidation == nsub > 0 /\ Kinds("warning") = {}
UploadIssued == Ops("upload") # {}
GenerateIssued == Ops("generate") # {}
UploadGaveUri ==
    /\ ~up_response.raised
    /\ up_response.status = 200
    /\ up_response.body.has_file
    /\ up_response.body.has_uri
    /\ up_response.body.uri # ""

\* C1: a transcription submission never has more than one temporary file of
\* its own on the disk, and when the handler has ended (returned or raised)
\* none of its temporary files is left.
C1_TempFileRemovedOnEveryExit ==
    /\ Cardinality(OwnFiles) <= 1
    /\ (Done => OwnFiles = {})

\* C2: every failure of a remote step ends with an error on the page, no
\* result, and a handler that returns normally; no exception leaves main().
C2_FailuresHandledAndReturn ==
    /\ pc # "raised"
    /\ (Done /\ PassedValidation
          /\ (\/ dl_outcome \notin {"none", "ok"}
              \/ (UploadIssued /\ ~UploadGaveUri)
              \/ (GenerateIssued /\ (gen_response.raised \/ gen_response.status # 200))
              \/ proc_response.raised # "none")
        => /\ Kinds("error") # {}
           /\ Kinds("text_area") = {}
           /\ ~transcript.some
           /\ ~result.some)

\* C3: once the stager has failed, in that submission it has reported an
\* error and given no path, the handler is past every remote step, no upload
\* and no generate request is in the log, and no transcript or download is on
\* the page.
C3_StagerFailureIsTerminal ==
    dl_outcome \notin {"none", "ok"}
    => /\ Shows("error", "Error downloading audio from URL")
       /\ ~tmp_path.some
       /\ pc \in {"cleanup", "returned", "raised"}
       /\ Ops("upload") = {}
       /\ Ops("generate") = {}
       /\ Kinds("success") = {}
       /\ Kinds("text_area") = {}
       /\ Kinds("download") = {}

C3_Witness ==
    /\ dl_outcome = "stream_error"
    /\ Done
    /\ Len(calls) = 1

\* C4: an upload answered with a status other than 200, or without a
\* non-empty file URI, shows an error, gives no result, is never followed by
\* a generate request, and the temporary file is gone when the handler ends;
\* and a generate request is only ever made after an upload answered 200 with
\* a non-empty URI, and carries exactly that URI.
C4_UploadWithoutUriIsFatal ==
    /\ (UploadIssued /\ ~up_response.raised /\ ~UploadGaveUri)
       => /\ Shows("error", "Error uploading audio file")
          /\ ~transcript.some
          /\ Kinds("text_area") = {}
          /\ Kinds("download") = {}
          /\ ~GenerateIssued
          /\ (Done => OwnFiles = {})
    /\ \A i \in Ops("generate") :
          /\ UploadGaveUri
          /\ \E j \in Ops("upload") : j < i
          /\ calls[i].uri = up_response.body.uri

C4_Witness ==
    /\ pc = "returned"
    /\ UploadIssued
    /\ up_response.status = 500
    /\ up_response.body.uri = "files/1"

\* C5: after a generate request answered 200 the result is the text of the
\* first part, in candidate order and then part order, that has a text;
\* candidates without content or without parts contribute nothing; with no
\* such part there is no result and no transcript on the page; an answer
\* other than 200 gives no result and an error.
TextPositions(cands) ==
    {q \in (1..Len(cands)) \X (1..MaxParts + 1) :
        /\ cands[q[1]].has_content
        /\ cands[q[1]].has_parts
        /\ q[2] <= Len(cands[q[1]].parts)
        /\ cands[q[1]].parts[q[2]].has_text}

Before(a, b) == a[1] < b[1] \/ (a[1] = b[1] /\ a[2] < b[2])

C5_FirstTextualPart ==
    (GenerateIssued /\ pc # "generate" /\ ~gen_response.raised)
    => LET cands == gen_response.candidates
           pos == TextPositions(cands)
       IN IF gen_response.status # 200
          THEN /\ ~transcript.some
               /\ Shows("error", "Error generating transcript")
               /\ Kinds("text_area") = {}
          ELSE IF pos = {}
          THEN /\ ~transcript.some
               /\ Kinds("text_area") = {}
               /\ Kinds("download") = {}
          ELSE \E q \in pos :
                  /\ \A r \in pos : r = q \/ Before(q, r)
                  /\ transcript.some
                  /\ transcript.val = cands[q[1]].parts[q[2]].text

\* The state the exhaustive scan starts from is one the form reaches.
ScanStartReached ==
    /\ pc = "generate"
    /\ nsub = 1
    /\ uploaded_file = SomePath(ScanName)
    /\ tmp_path = SomePath(ScanPath)
    /\ up_response = ScanUpload
    /\ file_uri = SomeText("files/1")
    /\ mime_type = "audio/mpeg"

C5_Witness ==
    /\ pc = "returned"
    /\ gen_response.status = 200
    /\ Len(gen_response.candidates) = 2
    /\ ~gen_response.candidates[1].has_content
    /\ Len(gen_response.candidates[2].parts) = 2
    /\ ~gen_response.candidates[2].parts[1].has_text
    /\ gen_response.candidates[2].parts[2].has_text
    /\ transcript = [some |-> TRUE, val |-> "hello world"]

\* C6: a submission whose prompt (either mode) or transcript (text mode) is
\* empty or whitespace only shows a warning and no error, makes no remote
\* request of any kind, creates no temporary file, and is over.
C6_BlankInputBlocksRemoteCalls ==
    (/\ nsub > 0
     /\ \/ (mode = "audio" /\ AllWhitespace(audio_prompt))
        \/ (mode = "text" /\ (AllWhitespace(prompt) \/ AllWhitespace(transcript_text))))
    => /\ Kinds("warning") # {}
       /\ Kinds("error") = {}
       /\ calls = <<>>
       /\ OwnFiles = {}
       /\ ~tmp_path.some
       /\ pc = "returned"

C6_Witness ==
    /\ mode = "text"
    /\ prompt = <<" ", "h", "i", " ">>
    /\ transcript_text = <<"\n", "\t">>
    /\ pc = "returned"
    /\ Kinds("warning") # {}

\* C7: the mime type sent with the upload and named in the generate request
\* is the table entry for the extension of the uploaded file's name, compared
\* without regard to case, audio/wav when the extension is unknown or
\* missing; for URL input it is audio/wav whatever the URL ends in.
SameIgnoringCase(a, b) ==
    /\ Len(a) = Len(b)
    /\ \A i \in 1..Len(a) : LowerChar(a[i]) = LowerChar(b[i])

TableMime(ext) ==
    IF SameIgnoringCase(ext, <<".", "w", "a", "v">>) THEN "audio/wav"
    ELSE IF SameIgnoringCase(ext, <<".", "m", "p", "3">>) THEN "audio/mpeg"
    ELSE IF SameIgnoringCase(ext, <<".", "m", "4", "a">>) THEN "audio/mp4"
    ELSE IF SameIgnoringCase(ext, <<".", "o", "g", "g">>) THEN "audio/ogg"
    ELSE IF SameIgnoringCase(ext, <<".", "f", "l", "a", "c">>) THEN "audio/flac"
    ELSE "audio/wav"

C7_MimeTypeFromExtension ==
    LET expected == IF uploaded_file.some
                    THEN TableMime(SplitExt(uploaded_file.val))
                    ELSE "audio/wav"
    IN /\ \A i \in Ops("upload") \cup Ops("generate") : calls[i].mime = expected
       /\ (UploadIssued /\ uploaded_file.some
             /\ uploaded_file.val = <<"c", "l", "i", "p", ".", "m", "p", "3">>
           => calls[1].mime = "audio/mpeg")

C7_Witness ==
    /\ uploaded_file.some
    /\ uploaded_file.val = <<"c", ".", "O", "G", "G">>
    /\ GenerateIssued
    /\ calls[2].mime = "audio/ogg"

\* C8: process_text_with_gemini makes at most one remote request, returns
\* the response's text when there is a non-empty one and nothing otherwise,
\* and on any exception shows an error and returns nothing; control always
\* comes back to its caller.
ProcessReturned ==
    \/ pc = "show_result"
    \/ (pc = "returned" /\ mode = "text" /\ PassedValidation)

C8_TextProcessingNeverRaises ==
    /\ (mode = "text" => pc # "raised")
    /\ ProcessReturned
       => /\ Len(calls) <= 1
          /\ \A i \in 1..Len(calls) : calls[i].op = "process"
          /\ IF proc_response.raised # "none"
             THEN /\ ~result.some
                  /\ Shows("error", "Error processing with Gemini")
             ELSE IF proc_response.text.some /\ proc_response.text.val # ""
             THEN /\ result.some
                  /\ result.val = proc_response.text.val
                  /\ Len(calls) = 1
             ELSE ~result.some

C8_Witness ==
    /\ pc = "returned"
    /\ mode = "text"
    /\ proc_response.raised = "call"
    /\ ~result.some
    /\ Len(calls) = 1

\* C9: within one transcription submission the requests made are a prefix of
\* download, upload, generate (URL input) or of upload, generate (uploaded
\* file), each at most once, and a request is made only when the step before
\* it succeeded.
C9_OneShotOrderedSteps ==
    mode = "audio"
    => /\ IF uploaded_file.some
          THEN OpsInOrder \in {<<>>, <<"upload">>, <<"upload", "generate">>}
          ELSE OpsInOrder \in {<<>>, <<"download">>, <<"download", "upload">>,
                               <<"download", "upload", "generate">>}
       /\ (UploadIssued /\ ~uploaded_file.some => dl_outcome = "ok")
       /\ (GenerateIssued => UploadGaveUri)

C9_Witness ==
    /\ pc = "returned"
    /\ OpsInOrder = <<"download", "upload">>
    /\ up_response.raised

\* C10: a submission that passed validation ends either with the success
\* banner, no error, and the same non-empty provider text displayed and
\* offered for download, or with an error banner and neither text nor
\* download; success and error are never on the page together and a text is
\* never shown without success.
ProviderTexts ==
    IF mode = "audio"
    THEN {gen_response.candidates[q[1]].parts[q[2]].text :
             q \in TextPositions(gen_response.candidates)}
    ELSE IF proc_response.text.some THEN {proc_response.text.val} ELSE {}

C10_ExactlyTwoOutcomes ==
    /\ ~(Kinds("success") # {} /\ Kinds("error") # {})
    /\ (Kinds("text_area") # {} \/ Kinds("download") # {} => Kinds("success") # {})
    /\ (Done /\ PassedValidation)
       => \/ /\ Kinds("success") # {}
             /\ Kinds("error") = {}
             /\ Cardinality(Kinds("text_area")) = 1
             /\ Cardinality(Kinds("download")) = 1
             /\ \E t \in ProviderTexts :
                   /\ t # ""
                   /\ Shows("text_area", t)
                   /\ Shows("download", t)
          \/ /\ Kinds("error") # {}
             /\ Kinds("success") = {}
             /\ Kinds("text_area") = {}
             /\ Kinds("download") = {}

C10_Witness ==
    /\ pc = "returned"
    /\ mode = "audio"
    /\ Kinds("success") # {}
    /\ Shows("download", "hello world")

====
